---- MODULE Spec2Model ----
(***************************************************************************)
(* Model of validere_distillation: the profile fetcher                     *)
(* (get_distillation_profile), the curve fitter (gamma_fit) and the        *)
(* mixture blender (gamma_mixture_distillation_profile).                   *)
(*                                                                         *)
(* Number representation.  Temperatures of a fetched table are integers    *)
(* (degrees C).  Recovered-mass fractions are in percent (0.05 is 5).      *)
(* A grid made by np.linspace(start, stop, num) is kept as the sequence of *)
(* numerators over the common denominator num - 1.  Values of a cumulative *)
(* curve are in thousandths.  The mixture is kept as numerators over       *)
(* 1000 * total_vol.  All comparisons are done on cross-multiplied         *)
(* integers, so they are exact.                                            *)
(*                                                                         *)
(* Library code (requests, scipy.optimize.curve_fit, scipy.stats.gamma)    *)
(* is the environment: the page served, the solver's outcome and the       *)
(* fitted parameters are nondeterministic choices.                         *)
(***************************************************************************)
EXTENDS Integers, Sequences, FiniteSets, TLC

VARIABLES
    op,             \* top-level call in progress: "none", "fetch", "fit", "blend"
    pc,             \* position: "idle", "request", "gamma_fit", "curve_fit", "mix", "done"
    crude1, crude2, \* blend's arguments
    vol1, vol2,
    slot,           \* which crude blend is fitting (1 or 2); 1 for a direct call
    crude_name,     \* arguments of the running get_distillation_profile / gamma_fit
    date,
    crude_df,       \* gamma_fit's local: what the fetch returned
    temp,           \* gamma_fit's local: temperatures with the NaN's dropped
    distilled,      \* gamma_fit's local: fractions handed to the solver (percent)
    fit_temps,      \* gamma_fit's local `temps` (numerators over FitPoints - 1)
    fits,           \* blend's locals: the unpacked result of each gamma_fit
    mixture_model,  \* blend's local (numerators over 1000 * total_vol)
    events,         \* what has happened in the call so far, in order
    result          \* outcome of the top-level call

vars == <<op, pc, crude1, crude2, vol1, vol2, slot, crude_name, date, crude_df,
          temp, distilled, fit_temps, fits, mixture_model, events, result>>

----------------------------------------------------------------------------
(* Bounds of the model *)

\* rows of a served distillation table
MaxRows == 3
\* volumes are drawn from -1 .. MaxVol
MaxVol == 2

----------------------------------------------------------------------------
(* Values *)

\* np.nan in the temperature column
NaN == -1

None == [kind |-> "None"]
Unset == [kind |-> "unset"]
NoResult == [kind |-> "none"]

Raise(e) == [kind |-> "raise", exc |-> e]
Return(v) == [kind |-> "return", value |-> v]

Crudes == {"MGS", "RA"}
Vols == -1 .. MaxVol

Digits == {"0", "1", "2", "3", "4", "5", "6", "7", "8", "9"}

Recent == <<"r", "e", "c", "e", "n", "t">>

\* date arguments tried: the two documented forms and malformed ones
Dates ==
    { Recent,
      <<"2", "0", "2", "0", "-", "0", "6", "-", "1", "0">>,
      <<"0", "1", "-", "0", "1", "-", "0", "1">>,
      <<"2", "0", "2", "0", "-", "6", "-", "1", "0">>,
      <<"2", "0", "2", "0", "-", "0", "6", "-", "1", "0", "x">>,
      <<"2", "0", "2", "0", "-", "0", "6", "-", "1", "0", "0">>,
      <<"x", "2", "0", "2", "0", "-", "0", "6", "-", "1", "0">>,
      <<"r", "e", "c", "e", "n", "t", "s">>,
      <<>> }

----------------------------------------------------------------------------
(* get_distillation_profile *)

\* re.match("\d\d\d\d-\d\d-\d\d", date): the pattern is matched at the start
\* of the string; nothing anchors its end.
ReMatch(s) ==
    /\ Len(s) >= 10
    /\ \A i \in {1, 2, 3, 4, 6, 7, 9, 10} : s[i] \in Digits
    /\ s[5] = "-"
    /\ s[8] = "-"

\* the assertion on `date`
DateAccepted(d) == d = Recent \/ ReMatch(d)

\* row labels of the table, top to bottom
IndexLabels ==
    << <<"I", "B", "P">>, <<"5">>, <<"1", "0">>, <<"2", "0">>, <<"3", "0">>,
       <<"4", "0">>, <<"5", "0">>, <<"6", "0">>, <<"7", "0">>, <<"8", "0">>,
       <<"9", "0">>, <<"9", "5">>, <<"9", "9">> >>

\* temperatures that appear in a served table
TempValues == {40, 90}

NonDecreasing(s) ==
    \A i, j \in 1 .. Len(s) :
        (i < j /\ s[i] # NaN /\ s[j] # NaN) => s[i] <= s[j]

\* the data frame returned for a crude that has samples: MaxRows rows, the
\* "Temperature( oC )" column with "-" cells replaced by NaN
DataFrames ==
    { [kind |-> "DataFrame",
       index |-> SubSeq(IndexLabels, 1, MaxRows),
       temperature |-> t] :
        t \in { u \in [1 .. MaxRows -> TempValues \cup {NaN}] : NonDecreasing(u) } }

\* what the function returns once the page has been fetched: None for either
\* "no crude" / "no samples" message, else the parsed table
FetchReturns == {None} \cup DataFrames

----------------------------------------------------------------------------
(* gamma_fit *)

IsNone(v) == v.kind = "None"

\* Series.dropna()
DropNa(s) == SelectSeq(s, LAMBDA x : x # NaN)

DigitValue(c) ==
    CASE c = "0" -> 0 [] c = "1" -> 1 [] c = "2" -> 2 [] c = "3" -> 3
      [] c = "4" -> 4 [] c = "5" -> 5 [] c = "6" -> 6 [] c = "7" -> 7
      [] c = "8" -> 8 [] c = "9" -> 9

RECURSIVE Float(_)
\* float(x) of a label made of digits
Float(s) ==
    IF s = <<>> THEN 0
    ELSE 10 * Float(SubSeq(s, 1, Len(s) - 1)) + DigitValue(s[Len(s)])

\* float(x) / 100 if x != "IBP" else 0, in percent
Fraction(x) == IF x # <<"I", "B", "P">> THEN Float(x) ELSE 0

\* [... for x in list(crude_df.index)][0:len(temp)]
Distilled(df, t) ==
    SubSeq([i \in 1 .. Len(df.index) |-> Fraction(df.index[i])], 1, Len(t))

\* p0=[5, 60]
P0 == <<5, 60>>

\* parameters the solver may settle on: the initial guess itself, or a = 1, b = 2
Popts(p0) == { p0, [i \in DOMAIN p0 |-> i] }

\* curve_fit(f, xdata, ydata, p0): no data is a ValueError; fewer points than
\* parameters is a TypeError ("Improper input: N=2 must not exceed M=1");
\* otherwise the solver converges to some parameters (with their covariance
\* matrix) or raises RuntimeError
CurveFit(xdata, ydata, p0) ==
    IF Len(ydata) = 0 \/ Len(xdata) # Len(ydata) THEN { Raise("ValueError") }
    ELSE IF Len(p0) > Len(ydata) THEN { Raise("TypeError") }
    ELSE { Raise("RuntimeError") } \cup
         { Return([popt |-> p,
                   pcov |-> [i \in DOMAIN p0 |-> [j \in DOMAIN p0 |-> 0]]]) :
             p \in Popts(p0) }

\* number of points of gamma_fit's grid
FitPoints == 1000

\* a grid that stops one point short of `stop`
LinspaceOneShort(start, stop, num) ==
    [j \in 1 .. num - 1 |-> start * (num - 1) + (j - 1) * (stop - start)]

\* np.linspace(start, stop, num), as numerators over num - 1
Linspace(start, stop, num) ==
    [j \in 1 .. num |-> start * (num - 1) + (j - 1) * (stop - start)]

RECURSIVE MaxOf(_)
MaxOf(s) ==
    IF Len(s) = 1 THEN s[1]
    ELSE LET m == MaxOf(Tail(s)) IN IF s[1] >= m THEN s[1] ELSE m

\* scipy.stats.gamma(a=p[1], scale=p[2]).cdf at the points grid[j] / den, in
\* thousandths.  The library curve is represented by a non-decreasing curve
\* from 0 to 1 that has the same mean p[1] * p[2].
GammaCdf(p, grid, den) ==
    [j \in 1 .. Len(grid) |->
        LET v == (grid[j] * 1000) \div (den * 2 * p[1] * p[2])
        IN  IF v > 1000 THEN 1000 ELSE v]

----------------------------------------------------------------------------
(* gamma_mixture_distillation_profile *)

\* assert vol1 >= 0 and vol2 >= 0
VolumesAccepted(v1, v2) == v1 >= 0 /\ v2 >= 0

\* the second crude fitted before the first
FitOrderSwapped == <<2, 1>>

\* the order in which the crudes are fitted
FitOrder == <<1, 2>>

CrudeOf(k) == IF k = 1 THEN crude1 ELSE crude2

\* no except clause around the unpacking
BlendCatchesNothing(e) == FALSE

\* except (TypeError, RuntimeError)
BlendCatchesRuntimeError(e) == e \in {"TypeError", "RuntimeError"}

\* except TypeError
BlendCatches(e) == e = "TypeError"

\* number of points of the blender's grid, and its upper end
MixPoints == 1000
MixStop == 1000

\* [0.05] + [0.1*x for x in range(1, 10)] + [0.95, 0.99], in percent
distilliation_percentages ==
    <<5>> \o [x \in 1 .. 9 |-> 10 * x] \o <<95, 99>>

\* (vol1 / total_vol) * cdf1 + (vol2 / total_vol) * cdf2, as numerators over
\* 1000 * total_vol
MixtureModel(v1, v2, p1, p2) ==
    LET temps == Linspace(0, MixStop, MixPoints)
        c1 == GammaCdf(p1, temps, MixPoints - 1)
        c2 == GammaCdf(p2, temps, MixPoints - 1)
    IN  [j \in DOMAIN temps |-> v1 * c1[j] + v2 * c2[j]]

Abs(n) == IF n < 0 THEN 0 - n ELSE n

RECURSIVE ArgMinIn(_, _, _)
\* first position of the least value of d within lo .. hi
ArgMinIn(d, lo, hi) ==
    IF lo = hi THEN lo
    ELSE LET mid == (lo + hi) \div 2
             l == ArgMinIn(d, lo, mid)
             r == ArgMinIn(d, mid + 1, hi)
         IN  IF d[r] < d[l] THEN r ELSE l

\* numpy's argmin: the 0-based index of the first least element
ArgMin(d) == ArgMinIn(d, 1, Len(d)) - 1

\* np.absolute(mixture_model - x), scaled by 1000 * total
AbsDiff(mix, x, total) ==
    [j \in 1 .. Len(mix) |-> Abs(mix[j] - x * 10 * total)]

\* [np.absolute(mixture_model - x).argmin()-1 for x in distilliation_percentages]
TempsColumn(mix, total) ==
    [k \in 1 .. Len(distilliation_percentages) |->
        ArgMin(AbsDiff(mix, distilliation_percentages[k], total)) - 1]

\* pd.DataFrame({"Mass % Recovered": ..., "Temperature (oC)": temps})
MixDistDf(mix, total) ==
    LET t == TempsColumn(mix, total)
    IN  [kind |-> "mixture",
         table |-> [k \in 1 .. Len(distilliation_percentages) |->
                       [fraction |-> distilliation_percentages[k],
                        temperature |-> t[k]]]]

----------------------------------------------------------------------------
(* Events *)

Event(e, k, i) == [e |-> e, slot |-> k, info |-> i]

NoFits == [k \in {1, 2} |-> Unset]

----------------------------------------------------------------------------
(* State machine *)

Init ==
    /\ op = "none"
    /\ pc = "idle"
    /\ crude1 = ""
    /\ crude2 = ""
    /\ vol1 = 0
    /\ vol2 = 0
    /\ slot = 1
    /\ crude_name = ""
    /\ date = <<>>
    /\ crude_df = Unset
    /\ temp = <<>>
    /\ distilled = <<>>
    /\ fit_temps = <<>>
    /\ fits = NoFits
    /\ mixture_model = <<>>
    /\ events = <<>>
    /\ result = NoResult

\* get_distillation_profile(crude, d) is entered: the assertion on the date,
\* then the request is about to be sent
EnterFetch(crude, d) ==
    /\ crude_name' = crude
    /\ date' = d
    /\ IF DateAccepted(d)
       THEN pc' = "request" /\ result' = result
       ELSE pc' = "done" /\ result' = Raise("AssertionError")

\* a direct call of get_distillation_profile(crude, d)
CallFetch(crude, d) ==
    /\ pc = "idle"
    /\ op' = "fetch"
    /\ EnterFetch(crude, d)
    /\ UNCHANGED <<crude1, crude2, vol1, vol2, slot, crude_df, temp, distilled,
                   fit_temps, fits, mixture_model, events>>

\* a direct call of gamma_fit(crude, ax, d): its first statement is the fetch
CallFit(crude, d) ==
    /\ pc = "idle"
    /\ op' = "fit"
    /\ EnterFetch(crude, d)
    /\ UNCHANGED <<crude1, crude2, vol1, vol2, slot, crude_df, temp, distilled,
                   fit_temps, fits, mixture_model, events>>

\* a call of gamma_mixture_distillation_profile(c1, c2, v1, v2): the assertion
\* on the volumes, then gamma_fit for the first crude, with the default date
CallBlend(c1, c2, v1, v2) ==
    /\ pc = "idle"
    /\ op' = "blend"
    /\ crude1' = c1
    /\ crude2' = c2
    /\ vol1' = v1
    /\ vol2' = v2
    /\ IF VolumesAccepted(v1, v2)
       THEN /\ events' = Append(events, Event("volcheck", 0, "ok"))
            /\ slot' = FitOrder[1]
            /\ EnterFetch(IF FitOrder[1] = 1 THEN c1 ELSE c2, Recent)
       ELSE /\ events' = Append(events, Event("volcheck", 0, "AssertionError"))
            /\ pc' = "done"
            /\ result' = Raise("AssertionError")
            /\ UNCHANGED <<slot, crude_name, date>>
    /\ UNCHANGED <<crude_df, temp, distilled, fit_temps, fits, mixture_model>>

\* requests.get and the parsing of the page: the function returns None or a
\* data frame, to its caller
Request ==
    /\ pc = "request"
    /\ \E page \in FetchReturns :
        /\ events' = Append(events, Event("fetch", slot, page.kind))
        /\ crude_df' = page
        /\ IF op = "fetch"
           THEN pc' = "done" /\ result' = Return(page)
           ELSE pc' = "gamma_fit" /\ result' = result
    /\ UNCHANGED <<op, crude1, crude2, vol1, vol2, slot, crude_name, date, temp,
                   distilled, fit_temps, fits, mixture_model>>

\* gamma_fit leaves with `outcome` (a return or a raise).  A direct call ends
\* there.  Inside blend the outcome meets the unpacking assignment in its
\* try block: unpacking None is a TypeError; a caught exception makes blend
\* return None; any other exception leaves blend; an unpacked result is kept
\* (its parameters and covariance: blend never reads the unpacked curve values
\* and axes) and blend goes on to the next crude, or to the mixture.
GammaFitLeaves(outcome) ==
    IF op = "fit"
    THEN /\ pc' = "done"
         /\ result' = outcome
         /\ UNCHANGED <<slot, crude_name, date, fits>>
    ELSE LET seen == IF outcome.kind = "return" /\ IsNone(outcome.value)
                     THEN Raise("TypeError")
                     ELSE outcome
         IN  IF seen.kind = "raise"
             THEN /\ pc' = "done"
                  /\ result' = IF BlendCatches(seen.exc) THEN Return(None) ELSE seen
                  /\ UNCHANGED <<slot, crude_name, date, fits>>
             ELSE /\ fits' = [fits EXCEPT ![slot] =
                                [kind |-> "fit",
                                 fit_params |-> seen.value.fit_params,
                                 cov_matrix |-> seen.value.cov_matrix]]
                  /\ result' = result
                  /\ IF slot = FitOrder[1]
                     THEN /\ slot' = FitOrder[2]
                          /\ crude_name' = CrudeOf(FitOrder[2])
                          /\ date' = Recent
                          /\ pc' = "request"
                     ELSE /\ pc' = "mix"
                          /\ UNCHANGED <<slot, crude_name, date>>

\* gamma_fit after the fetch: None is returned as None; otherwise the NaN's
\* are dropped and the fractions are taken from the row labels
GammaFitPrepare ==
    /\ pc = "gamma_fit"
    /\ IF IsNone(crude_df)
       THEN /\ GammaFitLeaves(Return(None))
            /\ crude_df' = IF op = "fit" THEN crude_df ELSE Unset
            /\ UNCHANGED <<temp, distilled>>
       ELSE /\ temp' = DropNa(crude_df.temperature)
            /\ distilled' = Distilled(crude_df, DropNa(crude_df.temperature))
            /\ pc' = "curve_fit"
            /\ UNCHANGED <<slot, crude_name, date, fits, result, crude_df>>
    /\ UNCHANGED <<op, crude1, crude2, vol1, vol2, fit_temps, mixture_model, events>>

\* curve_fit, then the evaluation of the fitted curve on the grid.  When
\* gamma_fit leaves into blend its locals are gone.
GammaFitSolve ==
    /\ pc = "curve_fit"
    /\ \E out \in CurveFit(temp, distilled, P0) :
        IF out.kind = "raise"
        THEN /\ events' = Append(events, Event("solve", slot, out.exc))
             /\ GammaFitLeaves(out)
             /\ fit_temps' = fit_temps
        ELSE LET grid == Linspace(0, MaxOf(temp), FitPoints)
                 vals == GammaCdf(out.value.popt, grid, FitPoints - 1)
             IN  /\ events' = Append(events, Event("solve", slot, "ok"))
                 /\ GammaFitLeaves(Return([kind |-> "fit",
                                           fit_params |-> out.value.popt,
                                           cov_matrix |-> out.value.pcov,
                                           fit_vals |-> vals]))
                 /\ fit_temps' = IF op = "fit" THEN grid ELSE <<>>
    /\ IF op = "fit"
       THEN UNCHANGED <<crude_df, temp, distilled>>
       ELSE crude_df' = Unset /\ temp' = <<>> /\ distilled' = <<>>
    /\ UNCHANGED <<op, crude1, crude2, vol1, vol2, mixture_model>>

\* blend after both fits: the proportions, the mixture on the grid, and the
\* table of temperatures at the target fractions
Mix ==
    /\ pc = "mix"
    /\ events' = Append(events, Event("mix", 0, ""))
    /\ pc' = "done"
    /\ LET total_vol == vol1 + vol2
       IN  IF total_vol = 0
           THEN /\ result' = Raise("ZeroDivisionError")
                /\ mixture_model' = mixture_model
           ELSE LET mix == MixtureModel(vol1, vol2, fits[1].fit_params,
                                        fits[2].fit_params)
                IN  /\ mixture_model' = mix
                    /\ result' = Return(MixDistDf(mix, total_vol))
    /\ UNCHANGED <<op, crude1, crude2, vol1, vol2, slot, crude_name, date,
                   crude_df, temp, distilled, fit_temps, fits>>

\* the call is over; the next one starts from nothing (no state is shared
\* between calls)
Finish ==
    /\ pc = "done"
    /\ op' = "none"
    /\ pc' = "idle"
    /\ crude1' = ""
    /\ crude2' = ""
    /\ vol1' = 0
    /\ vol2' = 0
    /\ slot' = 1
    /\ crude_name' = ""
    /\ date' = <<>>
    /\ crude_df' = Unset
    /\ temp' = <<>>
    /\ distilled' = <<>>
    /\ fit_temps' = <<>>
    /\ fits' = NoFits
    /\ mixture_model' = <<>>
    /\ events' = <<>>
    /\ result' = NoResult

Next ==
    \/ \E c \in Crudes, d \in Dates : CallFetch(c, d)
    \/ \E c \in Crudes, d \in Dates : CallFit(c, d)
    \/ \E c1 \in Crudes, c2 \in Crudes, v1 \in Vols, v2 \in Vols :
          CallBlend(c1, c2, v1, v2)
    \/ Request
    \/ GammaFitPrepare
    \/ GammaFitSolve
    \/ Mix
    \/ Finish

Spec == Init /\ [][Next]_vars

----------------------------------------------------------------------------
(* Properties *)

EventAt(i, e) == i \in DOMAIN events /\ events[i].e = e

Fetched(k, info) ==
    \E i \in DOMAIN events :
        events[i].e = "fetch" /\ events[i].slot = k /\ events[i].info = info

Solved(k, info) ==
    \E i \in DOMAIN events :
        events[i].e = "solve" /\ events[i].slot = k /\ events[i].info = info

AnyEvent(e) == \E i \in DOMAIN events : events[i].e = e

BlendReturnedTable ==
    /\ op = "blend"
    /\ pc = "done"
    /\ result.kind = "return"
    /\ result.value.kind = "mixture"

\* C1: blend rejects vol1 < 0, vol2 < 0 and vol1 + vol2 = 0 as a caller
\* error, and no fetch and no fit has been performed in a call with such
\* volumes.
C1_RejectsBadVolumes ==
    (op = "blend" /\ (vol1 < 0 \/ vol2 < 0 \/ vol1 + vol2 = 0)) =>
        /\ ~AnyEvent("fetch")
        /\ ~AnyEvent("solve")
        /\ pc = "done" => result = Raise("AssertionError")

\* the fraction column the mixture profile is said to have, in percent
TargetFractions == <<5, 10, 20, 30, 40, 50, 60, 70, 80, 90, 95, 99>>

\* C2: when both fits succeed the table blend returns has exactly 11 rows and
\* its fraction column is 0.05, 0.1, 0.2, ..., 0.9, 0.95, 0.99 in that order.
C2_ElevenRows ==
    BlendReturnedTable =>
        /\ Len(result.value.table) = 11
        /\ [k \in DOMAIN result.value.table |-> result.value.table[k].fraction]
               = TargetFractions

\* C3: for each target fraction x the reported temperature is temps[i] of the
\* 1000-point grid over [0, 1000], i the lowest index minimising
\* |mixture[i] - x|; so it is a grid value within [0, 1000].
C3_GridTemperature ==
    BlendReturnedTable =>
        \A k \in DOMAIN result.value.table :
            LET row == result.value.table[k]
                i == ArgMin(AbsDiff(mixture_model, row.fraction, vol1 + vol2))
                grid == Linspace(0, MixStop, MixPoints)
            IN  /\ row.temperature * (MixPoints - 1) = grid[i + 1]
                /\ row.temperature >= 0
                /\ row.temperature <= MixStop

\* C4: once the fetch for a crude has returned None, gamma_fit on that crude
\* returns None without running the solver, and blend returns None without
\* raising and without computing a mixture.
C4_AbsencePropagates ==
    \A i \in DOMAIN events :
        (events[i].e = "fetch" /\ events[i].info = "None" /\ op # "fetch") =>
            /\ ~AnyEvent("mix")
            /\ \A j \in DOMAIN events :
                  ~(events[j].e = "solve" /\ events[j].slot = events[i].slot)
            /\ mixture_model = <<>>
            /\ pc \in {"gamma_fit", "done"}
            /\ pc = "done" => result = Return(None)

\* blend has fitted the first crude, and the fetch for the second came back None
C4_Witness ==
    /\ op = "blend"
    /\ pc = "done"
    /\ Solved(1, "ok")
    /\ Fetched(2, "None")
    /\ result = Return(None)

\* the documented date form: four digits, hyphen, two digits, hyphen, two
\* digits, and nothing else
IsoDate(d) ==
    /\ Len(d) = 10
    /\ \A i \in {1, 2, 3, 4, 6, 7, 9, 10} : d[i] \in Digits
    /\ d[5] = "-"
    /\ d[8] = "-"

\* C5: a date that is neither "recent" nor exactly YYYY-MM-DD raises the
\* caller error before any request; only those two forms reach the network.
C5_DateForm ==
    (op \in {"fetch", "fit"} /\ date # Recent /\ ~IsoDate(date)) =>
        /\ pc = "done"
        /\ result = Raise("AssertionError")
        /\ ~AnyEvent("fetch")

\* C6: a solver failure to converge leaves gamma_fit, and blend, as that
\* error: not None, no fit result, no mixture table.
C6_NonConvergencePropagates ==
    \A i \in DOMAIN events :
        (events[i].e = "solve" /\ events[i].info = "RuntimeError") =>
            /\ pc = "done"
            /\ result = Raise("RuntimeError")
            /\ ~AnyEvent("mix")
            /\ mixture_model = <<>>

\* the solver failed on the second crude of a blend, after the first was fitted
C6_Witness ==
    /\ op = "blend"
    /\ pc = "done"
    /\ Solved(1, "ok")
    /\ Solved(2, "RuntimeError")

\* C7: when the solver succeeds on a profile (it then has at least 2
\* non-missing temperatures), gamma_fit returns 2 parameters, a 2x2
\* covariance, and 1000 curve values, on an evenly spaced grid from 0 to the
\* largest observed temperature.
C7_FitShapes ==
    (op = "fit" /\ Solved(1, "ok")) =>
        /\ pc = "done"
        /\ result.kind = "return"
        /\ result.value.kind = "fit"
        /\ Cardinality({r \in DOMAIN crude_df.temperature :
                           crude_df.temperature[r] # NaN}) >= 2
        /\ Len(result.value.fit_params) = 2
        /\ Len(result.value.cov_matrix) = 2
        /\ \A r \in DOMAIN result.value.cov_matrix :
              Len(result.value.cov_matrix[r]) = 2
        /\ Len(result.value.fit_vals) = 1000
        /\ Len(fit_temps) = 1000
        /\ fit_temps[1] = 0
        /\ \A j \in 1 .. 998 :
              fit_temps[j + 1] - fit_temps[j] = fit_temps[j + 2] - fit_temps[j + 1]
        /\ \A r \in DOMAIN crude_df.temperature :
              crude_df.temperature[r] # NaN =>
                  999 * crude_df.temperature[r] <= fit_temps[1000]
        /\ \E r \in DOMAIN crude_df.temperature :
              /\ crude_df.temperature[r] # NaN
              /\ 999 * crude_df.temperature[r] = fit_temps[1000]

\* a direct fit succeeded on a table whose last row has no temperature
C7_Witness ==
    /\ op = "fit"
    /\ pc = "done"
    /\ result.kind = "return"
    /\ result.value.kind = "fit"
    /\ crude_df.temperature[Len(crude_df.temperature)] = NaN

\* C8: in a blend the volume check comes first, then the fetch for crude1,
\* then the fetch for crude2, then the mixture; each crude argument is
\* fetched at most once; after a None for crude1 there is no fetch for crude2.
C8_BlendOrder ==
    op = "blend" =>
        /\ EventAt(1, "volcheck")
        /\ \A i \in DOMAIN events : events[i].e = "volcheck" => i = 1
        /\ \A i, j \in DOMAIN events :
              (events[i].e = "fetch" /\ events[j].e = "fetch"
                  /\ events[i].slot = events[j].slot) => i = j
        /\ \A j \in DOMAIN events :
              (events[j].e = "fetch" /\ events[j].slot = 2) =>
                  \E i \in 1 .. j - 1 :
                      events[i].e = "fetch" /\ events[i].slot = 1
        /\ \A m \in DOMAIN events :
              events[m].e = "mix" =>
                  /\ m = Len(events)
                  /\ \E j \in 1 .. m - 1 :
                        events[j].e = "fetch" /\ events[j].slot = 2
        /\ Fetched(1, "None") => ~(Fetched(2, "None") \/ Fetched(2, "DataFrame"))

\* a blend that went through both fetches and computed the mixture
C8_Witness ==
    /\ op = "blend"
    /\ pc = "done"
    /\ Fetched(1, "DataFrame")
    /\ Fetched(2, "DataFrame")
    /\ AnyEvent("mix")

\* C9: blend returns None only if the fetch for crude1 or crude2 returned
\* None; every other failure inside a fit leaves blend as an error.
C9_AbsentOnlyFromFetcher ==
    (op = "blend" /\ pc = "done" /\ result = Return(None)) =>
        (Fetched(1, "None") \/ Fetched(2, "None"))

\* rows of the table that have a temperature, top to bottom
NonNaRows(df) ==
    SelectSeq([r \in 1 .. Len(df.temperature) |-> r],
              LAMBDA r : df.temperature[r] # NaN)

\* C10: the temperatures and fractions handed to the solver have equal
\* length, and each temperature comes with the fraction of its own row.
C10_OwnRowPairing ==
    pc = "curve_fit" =>
        /\ Len(temp) = Len(distilled)
        /\ Len(temp) = Len(NonNaRows(crude_df))
        /\ \A j \in 1 .. Len(temp) :
              LET r == NonNaRows(crude_df)[j]
              IN  /\ temp[j] = crude_df.temperature[r]
                  /\ distilled[j] = Fraction(crude_df.index[r])

====
